---- MODULE Spec2Model ----
(***************************************************************************)
(* A model of the dashing terminal-dashboard library                       *)
(* (src/dashing/__init__.py): tiles, their colour inheritance, the bounded *)
(* history buffers of Log and the charts, the box geometry of VSplit and   *)
(* HSplit, the glyph rendering of gauges, charts and logs into the output  *)
(* buffer, and the colour functions RGB.parse and interpolate_colors.      *)
(*                                                                         *)
(* Coordinates follow the source: x is the row (vertical), y the column,   *)
(* a TBox is (x, y, w, h).  Strings are sequences of one-character         *)
(* strings.  The output buffer _Buf is the sequence of the tokens added to *)
(* it: cursor moves, colour changes and runs of glyphs.                    *)
(***************************************************************************)
EXTENDS Integers, Sequences, FiniteSets, TLC

VARIABLES
    tiles,      \* the heap of Tile objects: tile id -> fields
    box,        \* the area of the terminal the drawn tile is laid out in
    buf,        \* _Buf._buf of the display pass in `call` (fresh per pass)
    appended,   \* history: every item passed to append, per tile, in order
    given,      \* history: the colours the caller gave each tile, per kind
    trace,      \* the _display and _fill_area calls of that pass, in order
    call,       \* the operation performed last, with its arguments
    result,     \* what that operation returned, or the exception it raised
    terminals,  \* the Terminal objects: terminal id -> width and height
    stdout      \* what the last display() call printed, one entry per print

vars == <<tiles, box, buf, trace, appended, given, call, result, terminals,
          stdout>>

----------------------------------------------------------------------------
(* Bounds of the model *)

\* appends performed beyond the capacity of a buffer
MaxOver == 3
\* appends performed on a tile that is also drawn
MaxAppends == 53
\* most children of a split
MaxItems == 3
\* most tiles constructed for the colour operations
MaxTiles == 2
\* most steps of a colour gradient
MaxSteps == 4
\* largest width and height of a box handed to _display
MaxW == 4
MaxH == 4
\* largest row / column offset of a box handed to _display
MaxOff == 1

----------------------------------------------------------------------------
(* Python helpers *)

None == "None"

Max(a, b) == IF a >= b THEN a ELSE b
Min(a, b) == IF a <= b THEN a ELSE b

\* char * n : the empty string when n <= 0
Rep(c, n) == [i \in 1..Max(n, 0) |-> c]

\* range(a, b)
Range(a, b) == a..(b - 1)

\* seq[i] with Python's index rule; IndexError is reported by InRange
InRange(seq, i) == /\ i < Len(seq)
                   /\ i >= 0 - Len(seq)
Index(seq, i) == IF i < 0 THEN seq[Len(seq) + i + 1] ELSE seq[i + 1]

\* [f(i) : i in range(0, n)] concatenated, f(i) a sequence
RECURSIVE ConcatFrom(_, _, _)
ConcatFrom(f(_), i, n) == IF i >= n THEN <<>> ELSE f(i) \o ConcatFrom(f, i + 1, n)
ForRange(f(_), n) == ConcatFrom(f, 0, n)

----------------------------------------------------------------------------
(* "graphic" elements *)

border_bl == "bl"
border_br == "br"
border_tl == "tl"
border_tr == "tr"
border_h  == "bh"
border_v  == "bv"
\* seven horizontal eighths: the table has no full block
hbar_elements == <<"h1", "h2", "h3", "h4", "h5", "h6", "h7">>
\* eight vertical eighths, the last one the full block
vbar_elements == <<"v1", "v2", "v3", "v4", "v5", "v6", "v7", "v8">>
braille_left    == <<1, 2, 4, 64, 0>>
braille_right   == <<8, 16, 32, 128, 0>>
braille_r_left  == <<4, 2, 1>>
braille_r_right == <<32, 16, 8>>
BrailleBase == 10240

TBox(x, y, w, h) == [x |-> x, y |-> y, w |-> w, h |-> h]

----------------------------------------------------------------------------
(* Color management *)

\* An RGB is the tuple <<r, g, b>>; a colour that is None is the empty tuple.
RGB(r, g, b) == <<r, g, b>>
NoColor == <<>>

HexDigits == <<"0", "1", "2", "3", "4", "5", "6", "7",
               "8", "9", "a", "b", "c", "d", "e", "f">>
HexDigitsUpper == <<"0", "1", "2", "3", "4", "5", "6", "7",
                    "8", "9", "A", "B", "C", "D", "E", "F">>

IsHexDigit(c) == \E i \in 1..16 : HexDigits[i] = c \/ HexDigitsUpper[i] = c
HexVal(c) == (CHOOSE i \in 1..16 : HexDigits[i] = c \/ HexDigitsUpper[i] = c) - 1

\* color[a:b] : Python slicing clips to the length of the string
Slice(s, a, b) == SubSeq(s, a + 1, Min(b, Len(s)))

\* int(s, 16) for a slice of at most two characters.  Python's int accepts
\* one or two hex digits, and a single digit with a sign before it or with
\* white space on either side; anything else raises ValueError.
IntHexOk(s) ==
    \/ Len(s) = 1 /\ IsHexDigit(s[1])
    \/ Len(s) = 2 /\ IsHexDigit(s[1]) /\ IsHexDigit(s[2])
    \/ Len(s) = 2 /\ s[1] \in {" ", "+", "-"} /\ IsHexDigit(s[2])
    \/ Len(s) = 2 /\ IsHexDigit(s[1]) /\ s[2] = " "
IntHex(s) ==
    CASE Len(s) = 1 -> HexVal(s[1])
      [] Len(s) = 2 /\ IsHexDigit(s[1]) /\ IsHexDigit(s[2]) ->
             16 * HexVal(s[1]) + HexVal(s[2])
      [] Len(s) = 2 /\ s[1] = "-" -> 0 - HexVal(s[2])
      [] Len(s) = 2 /\ s[1] \in {" ", "+"} -> HexVal(s[2])
      [] OTHER -> HexVal(s[1])

RECURSIVE GCD(_, _)
GCD(a, b) == IF b = 0 THEN a ELSE GCD(b, a % b)
Abs(a) == IF a < 0 THEN 0 - a ELSE a

\* Rationals <<numerator, denominator>>, denominator > 0, in lowest terms.
Q(n, d) == LET reduce(g) == <<n \div g, d \div g>> IN reduce(GCD(Abs(n), d))
QAdd(p, q) == Q(p[1] * q[2] + q[1] * p[2], p[2] * q[2])
QSub(p, q) == Q(p[1] * q[2] - q[1] * p[2], p[2] * q[2])
QMul(p, q) == Q(p[1] * q[1], p[2] * q[2])
QInt(n) == <<n, 1>>
\* int(x) : truncation towards zero
QTrunc(p) == IF p[1] >= 0 THEN p[1] \div p[2] ELSE 0 - ((0 - p[1]) \div p[2])

\* colorsys.rgb_to_hsv(r, g, b) on integer channels: <<h, s, v>> as rationals
rgb_to_hsv(c) ==
    LET \* h = (h / 6.0) % 1.0
        hsv(maxc, rangec, h6) ==
            <<IF h6[1] < 0 THEN QAdd(QMul(h6, <<1, 6>>), QInt(1))
              ELSE QMul(h6, <<1, 6>>),
              Q(rangec, maxc), QInt(maxc)>>
        hue(r, g, b, maxc, rangec) ==
            IF rangec = 0 THEN <<QInt(0), QInt(0), QInt(maxc)>>
            ELSE hsv(maxc, rangec,
                     IF r = maxc THEN Q(g - b, rangec)
                     ELSE IF g = maxc THEN QAdd(QInt(2), Q(b - r, rangec))
                     ELSE QAdd(QInt(4), Q(r - g, rangec)))
        extremes(maxc, minc) == hue(c[1], c[2], c[3], maxc, maxc - minc)
    IN  extremes(Max(c[1], Max(c[2], c[3])), Min(c[1], Min(c[2], c[3])))

\* colorsys.hsv_to_rgb(h, s, v) : <<r, g, b>> as rationals
hsv_to_rgb(h, s, v) ==
    LET sector(k, p, q, t) ==
            CASE k = 0 -> <<v, t, p>>
              [] k = 1 -> <<q, v, p>>
              [] k = 2 -> <<p, v, t>>
              [] k = 3 -> <<p, q, v>>
              [] k = 4 -> <<t, p, v>>
              [] k = 5 -> <<v, p, q>>
        \* p = v*(1 - s), q = v*(1 - s*f), t = v*(1 - s*(1 - f))
        pqt(i, f) ==
            sector(i % 6, QMul(v, QSub(QInt(1), s)),
                   QMul(v, QSub(QInt(1), QMul(s, f))),
                   QMul(v, QSub(QInt(1), QMul(s, QSub(QInt(1), f)))))
        \* f = (h*6.0) - i
        frac(h6, i) == pqt(i, QSub(h6, QInt(i)))
        \* i = int(h*6.0)
        whole(h6) == frac(h6, QTrunc(h6))
    IN  IF s[1] = 0 THEN <<v, v, v>> ELSE whole(QMul(h, QInt(6)))

\* color.startswith(prefix) for a one-character prefix
StartsWith(color, prefix) == Len(color) >= 1 /\ color[1] = prefix

\* RGB.parse(color) raises ValueError
RGB_parse_raises(color) ==
    \/ ~StartsWith(color, "#") /\ ~StartsWith(color, "*")
    \/ ~IntHexOk(Slice(color, 1, 3))
    \/ ~IntHexOk(Slice(color, 3, 5))
    \/ ~IntHexOk(Slice(color, 5, 7))

\* (mutant of RGB_parse: the channels are read in the order blue, green, red)
RGB_parse_BGR(color) ==
    RGB(IntHex(Slice(color, 5, 7)), IntHex(Slice(color, 3, 5)),
        IntHex(Slice(color, 1, 3)))

\* RGB.parse(color): the RGB it returns when it does not raise.  The HSV
\* branch is computed exactly (the source computes it in doubles).
RGB_parse(color) ==
    LET from_hsv(c) == RGB(QTrunc(QMul(c[1], QInt(255))),
                           QTrunc(QMul(c[2], QInt(255))),
                           QTrunc(QMul(c[3], QInt(255))))
        channels(n1, n2, n3) ==
            IF StartsWith(color, "#")
            THEN RGB(n1, n2, n3)
            ELSE from_hsv(hsv_to_rgb(Q(n1, 255), Q(n2, 255), Q(n3, 255)))
    IN  channels(IntHex(Slice(color, 1, 3)), IntHex(Slice(color, 3, 5)),
                 IntHex(Slice(color, 5, 7)))

\* The arithmetic of interpolate_colors, carried out exactly: the three
\* channels as rationals before int() truncates them.  `exact` tells that
\* the doubles of the source compute the same numbers without rounding
\* (both colours gray and either of equal value or pos = 0).
interpolate_hsv(high, low, steps, pos) ==
    LET convert(h, s, v, same) ==
            [c |-> hsv_to_rgb(h, s, v), exact |-> s[1] = 0 /\ same]
        \* start = rgb_to_hsv(*low), end = rgb_to_hsv(*high), k = pos / steps
        mix(start, end, k) ==
            convert(QAdd(start[1], QMul(QSub(end[1], start[1]), k)),
                    QAdd(start[2], QMul(QSub(end[2], start[2]), k)),
                    QAdd(start[3], QMul(QSub(end[3], start[3]), k)),
                    start[3] = end[3] \/ pos = 0)
    IN  mix(rgb_to_hsv(low), rgb_to_hsv(high), Q(pos, steps))

\* RGB.to_hls raises ZeroDivisionError: colorsys.rgb_to_hls, written for
\* channels in [0, 1], divides by 2.0 - (maxc + minc) when maxc # minc and
\* (maxc + minc) / 2.0 > 0.5
to_hls_raises(c) ==
    LET zero(maxc, minc) == maxc # minc /\ maxc + minc = 2
    IN  zero(Max(c[1], Max(c[2], c[3])), Min(c[1], Min(c[2], c[3])))

\* the exception interpolate_colors(high, low, steps, pos) raises, or None
interpolate_colors_error(high, low, steps, pos) ==
    LET outside(r) == r[1] < 0 \/ r[1] > 255 * r[2]
    IN  IF steps <= 0 THEN "AssertionError"
        ELSE IF to_hls_raises(high) \/ to_hls_raises(low)
        THEN "ZeroDivisionError"
        ELSE IF outside(interpolate_hsv(high, low, steps, pos).c[1])
        THEN "AssertionError"
        ELSE None

\* interpolate_colors(high, low, steps, pos) in exact arithmetic: the RGB
\* it returns when it does not raise
interpolate_colors(high, low, steps, pos) ==
    LET trunc(c) == RGB(QTrunc(c[1]), QTrunc(c[2]), QTrunc(c[3]))
    IN  trunc(interpolate_hsv(high, low, steps, pos).c)

\* int(x) of a channel computed in doubles: a channel whose exact value is
\* a whole number n can be computed as a double just below n, which int()
\* truncates to n - 1 (to n + 1 when n is negative).
FloatTrunc(x, exact) ==
    IF x[2] = 1 /\ x[1] >= 1 /\ ~exact THEN {x[1], x[1] - 1}
    ELSE IF x[2] = 1 /\ x[1] <= -1 /\ ~exact THEN {x[1], x[1] + 1}
    ELSE {QTrunc(x)}

\* Every value interpolate_colors can return when computed in doubles.
interpolate_results(high, low, steps, pos) ==
    LET outcomes(i) ==
            {RGB(r, g, b) : r \in FloatTrunc(i.c[1], i.exact),
                            g \in FloatTrunc(i.c[2], i.exact),
                            b \in FloatTrunc(i.c[3], i.exact)}
    IN  outcomes(interpolate_hsv(high, low, steps, pos))

----------------------------------------------------------------------------
(* Tiles *)

ColorNames == {"text_color", "border_color", "color_high", "color_low"}

LogCls    == {"Log"}
ChartCls  == {"VChart", "HChart", "HBrailleChart", "HBrailleFilledChart"}
BufferCls == LogCls \cup ChartCls

\* deque(maxlen=...) of each class
LogMaxLen    == 50
VChartMaxLen == 50
HChartMaxLen == 500
HBrailleChartMaxLen == 500
HBrailleFilledChartMaxLen == 500

MaxLenOf(cls) ==
    CASE cls = "Log" -> LogMaxLen
      [] cls = "VChart" -> VChartMaxLen
      [] cls = "HChart" -> HChartMaxLen
      [] cls = "HBrailleChart" -> HBrailleChartMaxLen
      [] cls = "HBrailleFilledChart" -> HBrailleFilledChartMaxLen

\* Tile.__init__ : the fields every tile has, with the constructor's defaults
\* made explicit by the caller (border is True for leaves, False for splits)
Tile__init__(cls, title, border, colors) ==
    [cls |-> cls,
     title |-> title,
     border |-> border,
     colors |-> colors,
     _terminal |-> 0,
     parent |-> 0,
     items |-> <<>>,
     value |-> 100,
     label |-> <<>>,
     text |-> <<>>,
     logs |-> <<>>,
     datapoints |-> <<>>]

NoColors == [n \in ColorNames |-> NoColor]

\* (mutant of DequeAppend: a full deque refuses the new item)
DequeAppend_KeepOldest(dq, item, maxlen) ==
    IF Len(dq) >= maxlen THEN dq ELSE dq \o <<item>>

\* collections.deque.append on a deque with the given maxlen
DequeAppend(dq, item, maxlen) ==
    IF Len(dq) >= maxlen THEN Tail(dq) \o <<item>> ELSE dq \o <<item>>

\* Log.append
LogAppend(t, msg) == [t EXCEPT !.logs = DequeAppend(t.logs, msg, MaxLenOf(t.cls))]

\* VChart.append / HChart.append / HBrailleChart.append / HBrailleFilledChart.append
ChartAppend(t, dp) ==
    [t EXCEPT !.datapoints = DequeAppend(t.datapoints, dp, MaxLenOf(t.cls))]

----------------------------------------------------------------------------
(* Colour inheritance *)

Gray == RGB(128, 128, 128)

\* Tile._inherit_style(name) on tile t of heap ts: the colour returned and
\* the heap afterwards (a root without the colour stores gray in itself)
RECURSIVE _inherit_style(_, _, _)
_inherit_style(ts, t, name) ==
    IF ts[t].colors[name] # NoColor
    THEN [col |-> ts[t].colors[name], ts |-> ts]
    ELSE IF ts[t].parent # 0
    THEN _inherit_style(ts, ts[t].parent, name)
    ELSE [col |-> Gray, ts |-> [ts EXCEPT ![t].colors[name] = Gray]]

\* the properties text_color, border_color, color_high, color_low
ColorOf(ts, t, name) == _inherit_style(ts, t, name).col

\* the heap after all the colour properties in `reads` were read
RECURSIVE ReadAll(_, _)
ReadAll(ts, reads) ==
    IF reads = {} THEN ts
    ELSE LET r == CHOOSE r \in reads : TRUE
         IN  ReadAll(_inherit_style(ts, r[1], r[2]).ts, reads \ {r})

----------------------------------------------------------------------------
(* The output buffer and what a _display call leaves behind *)

MoveTok(x, y) == [tok |-> "move", x |-> x, y |-> y, s |-> <<>>]
ColorTok(rgb) == [tok |-> "color", x |-> 0, y |-> 0, s |-> rgb]
TextTok(s)    == [tok |-> "text", x |-> 0, y |-> 0, s |-> s]

\* The effect of a piece of rendering code: the tokens added to buf, the
\* calls made, the colour properties read, and the exception raised if any.
Out(b, reads) == [buf |-> b, trace |-> <<>>, reads |-> reads, err |-> None]
Raise(e) == [buf |-> <<>>, trace |-> <<>>, reads |-> {}, err |-> e]
Called(fn, t, tbox) ==
    [buf |-> <<>>, trace |-> <<[fn |-> fn, tile |-> t, tbox |-> tbox]>>,
     reads |-> {}, err |-> None]

\* a; b  -- b does not run when a raised
Then(a, b) ==
    IF a.err # None THEN a
    ELSE [buf |-> a.buf \o b.buf, trace |-> a.trace \o b.trace,
          reads |-> a.reads \cup b.reads, err |-> b.err]

\* int(a / b) for b > 0: truncation towards zero
TruncDiv(a, b) == IF a >= 0 THEN a \div b ELSE 0 - ((0 - a) \div b)

\* Tile._draw_borders_and_title: the tokens it adds
BorderTokens(ts, t, tbox) ==
    LET title == ts[t].title
        margin == TruncDiv(tbox.w - Len(title), 20)
        border_t0 == Rep(border_h, margin - 1) \o Rep(" ", margin) \o title
                       \o Rep(" ", margin)
        border_t == IF title # <<>>
                    THEN border_t0 \o Rep(border_h, tbox.w - Len(border_t0) - 2)
                    ELSE Rep(border_h, tbox.w - 2)
        sides(dx) == <<MoveTok(tbox.x + dx + 1, tbox.y), TextTok(<<border_v>>),
                       MoveTok(tbox.x + dx + 1, tbox.y + tbox.w - 1),
                       TextTok(<<border_v>>)>>
    IN  IF ts[t].border
        THEN <<ColorTok(ColorOf(ts, t, "border_color"))>>
             \o ForRange(sides, tbox.h - 2)
             \o <<MoveTok(tbox.x + tbox.h - 1, tbox.y), TextTok(<<border_bl>>),
                  TextTok(Rep(border_h, tbox.w - 2)), TextTok(<<border_br>>)>>
             \o <<MoveTok(tbox.x, tbox.y), TextTok(<<border_tl>>),
                  TextTok(border_t), TextTok(<<border_tr>>)>>
        ELSE IF title # <<>>
        THEN <<MoveTok(tbox.x, tbox.y),
               TextTok(Rep(" ", margin) \o title
                       \o Rep(" ", tbox.w - margin - Len(title)))>>
        ELSE <<>>

\* (mutant of InnerBox: a title without border insets the box by one column
\* and keeps its height)
InnerBox_TitleColumn(ts, t, tbox) ==
    IF ts[t].border
    THEN TBox(tbox.x + 1, tbox.y + 1, tbox.w - 2, tbox.h - 2)
    ELSE IF ts[t].title # <<>>
    THEN TBox(tbox.x, tbox.y + 1, tbox.w - 1, tbox.h)
    ELSE TBox(tbox.x, tbox.y, tbox.w, tbox.h)

\* Tile._draw_borders_and_title: the inset box it returns
InnerBox(ts, t, tbox) ==
    IF ts[t].border
    THEN TBox(tbox.x + 1, tbox.y + 1, tbox.w - 2, tbox.h - 2)
    ELSE IF ts[t].title # <<>>
    THEN TBox(tbox.x + 1, tbox.y, tbox.w - 0, tbox.h - 1)
    ELSE TBox(tbox.x, tbox.y, tbox.w, tbox.h)

\* Tile._draw_borders_and_title(buf, tbox) as an effect; the trace keeps
\* the box it returns
_draw_borders_and_title(ts, t, tbox) ==
    [buf |-> BorderTokens(ts, t, tbox),
     trace |-> <<[fn |-> "_draw_borders_and_title", tile |-> t,
                  tbox |-> InnerBox(ts, t, tbox)]>>,
     reads |-> IF ts[t].border THEN {<<t, "border_color">>} ELSE {},
     err |-> None]

\* Tile._fill_area(buf, tbox, char)
_fill_area(t, tbox, char) ==
    LET row(dx) == <<MoveTok(tbox.x + dx, tbox.y), TextTok(Rep(char, tbox.w))>>
    IN  Then(Called("_fill_area", t, tbox), Out(ForRange(row, tbox.h), {}))

\* the calls interpolate_colors(high, low, steps, pos) a renderer makes for
\* pos = 0 .. n-1, kept in the trace; the first call raises AssertionError
\* when steps <= 0
Interpolated(t, steps, n) ==
    LET made(pos) == <<[fn |-> "interpolate_colors", tile |-> t,
                        steps |-> steps, pos |-> pos]>>
    IN  [buf |-> <<>>,
         trace |-> ForRange(made, IF steps <= 0 THEN Min(n, 1) ELSE n),
         reads |-> IF n > 0 THEN {<<t, "color_high">>, <<t, "color_low">>}
                   ELSE {},
         err |-> IF n > 0 /\ steps <= 0 THEN "AssertionError" ELSE None]

\* _pad(itr, n): the values of itr, then "" until n values were yielded
_pad(itr, n) == itr \o [j \in 1..Max(n - Len(itr), 0) |-> <<>>]

\* seq[-(h):] as Text._display takes it
LastLines(seq, h) ==
    IF h > 0 THEN SubSeq(seq, Max(Len(seq) - h, 0) + 1, Len(seq))
    ELSE SubSeq(seq, (0 - h) + 1, Len(seq))

\* Text._display(buf, tbox)
Text_display(ts, t, tbox0) ==
    LET tbox == InnerBox(ts, t, tbox0)
        lines == _pad(LastLines(ts[t].text, tbox.h), tbox.h)
        row(dx) == <<ColorTok(ColorOf(ts, t, "text_color")),
                     MoveTok(tbox.x + dx, tbox.y),
                     TextTok(lines[dx + 1]),
                     TextTok(Rep(" ", tbox.w - Len(lines[dx + 1])))>>
    IN  Then(Called("_display", t, tbox0),
        Then(_draw_borders_and_title(ts, t, tbox0),
             Out(ForRange(row, Len(lines)),
                 IF lines # <<>> THEN {<<t, "text_color">>} ELSE {})))

\* Log._display(buf, tbox)
Log_display(ts, t, tbox0) ==
    LET tbox == InnerBox(ts, t, tbox0)
        logs == ts[t].logs
        n_logs == Len(logs)
        log_range == Min(n_logs, tbox.h)
        start == n_logs - log_range
        lines == _pad(SubSeq(logs, start + 1, n_logs), tbox.h)
        col(dx) == interpolate_colors(ColorOf(ts, t, "color_high"),
                                      ColorOf(ts, t, "color_low"), tbox.h, dx)
        row(dx) == <<ColorTok(col(dx)),
                     MoveTok(tbox.x + dx, tbox.y),
                     TextTok(lines[dx + 1]),
                     TextTok(Rep(" ", tbox.w - Len(lines[dx + 1])))>>
    IN  Then(Called("_display", t, tbox0),
        Then(_draw_borders_and_title(ts, t, tbox0),
        Then(Interpolated(t, tbox.h, Len(lines)),
             Out(ForRange(row, Len(lines)),
                 IF lines # <<>>
                 THEN {<<t, "color_high">>, <<t, "color_low">>} ELSE {}))))

\* HGauge._display(buf, tbox); value is an integer percentage
HGauge_display(ts, t, tbox0) ==
    LET tbox == InnerBox(ts, t, tbox0)
        label == ts[t].label
        label_wid == Len(label)
        \* bar_wid * 100
        bar_wid100 == IF label # <<>> THEN (tbox.w - label_wid - 3) * ts[t].value
                      ELSE tbox.w * ts[t].value
        v_center == TruncDiv(tbox.h, 2)
        bar_iwid == TruncDiv(bar_wid100, 100)
        filler_wid == IF label # <<>> THEN tbox.w - bar_iwid - label_wid - 2
                      ELSE tbox.w - bar_iwid - 1
        col(pos) == interpolate_colors(ColorOf(ts, t, "color_high"),
                                       ColorOf(ts, t, "color_low"),
                                       bar_iwid + filler_wid, pos)
        full(pos) == <<ColorTok(col(pos)), TextTok(<<Index(hbar_elements, -1)>>)>>
        selector == TruncDiv((bar_wid100 - 100 * bar_iwid) * 7, 100)
        blk == ForRange(full, bar_iwid)
               \o <<TextTok(<<Index(hbar_elements, selector)>>),
                    ColorTok(ColorOf(ts, t, "text_color")),
                    TextTok(Rep(Index(hbar_elements, 0), filler_wid))>>
        row(dx) == <<MoveTok(tbox.x + dx, tbox.y)>>
                   \o (IF label # <<>>
                       THEN IF dx = v_center THEN <<TextTok(label \o <<" ">>)>>
                            ELSE <<TextTok(Rep(" ", label_wid) \o <<" ">>)>>
                       ELSE <<>>)
                   \o blk
    IN  Then(Called("_display", t, tbox0),
        Then(_draw_borders_and_title(ts, t, tbox0),
        Then(Interpolated(t, bar_iwid + filler_wid, bar_iwid),
             Out(ForRange(row, tbox.h),
                 {<<t, "text_color">>}
                 \cup IF bar_iwid > 0
                      THEN {<<t, "color_high">>, <<t, "color_low">>} ELSE {}))))

\* VGauge._display(buf, tbox); value is an integer percentage
VGauge_display(ts, t, tbox0) ==
    LET tbox == InnerBox(ts, t, tbox0)
        \* nh = tbox.h * (value / 100.5) = nh201 / 201
        nh201 == tbox.h * ts[t].value * 2
        int_nh == TruncDiv(nh201, 201)
        index == TruncDiv((nh201 - 201 * int_nh) * 8, 201)
        col(dx) == interpolate_colors(ColorOf(ts, t, "color_high"),
                                      ColorOf(ts, t, "color_low"), tbox.h, dx)
        row(dx) == <<MoveTok(tbox.x + tbox.h - dx - 1, tbox.y),
                     ColorTok(col(dx)),
                     TextTok(IF dx < int_nh
                             THEN Rep(Index(vbar_elements, -1), tbox.w)
                             ELSE IF dx = int_nh
                             THEN Rep(Index(vbar_elements, index), tbox.w)
                             ELSE Rep(" ", tbox.w))>>
    IN  Then(Called("_display", t, tbox0),
        Then(_draw_borders_and_title(ts, t, tbox0),
        Then(Interpolated(t, tbox.h, tbox.h),
             Out(<<MoveTok(tbox.x, tbox.y), ColorTok(ColorOf(ts, t, "text_color"))>>
                 \o ForRange(row, tbox.h),
                 {<<t, "text_color">>}
                 \cup IF tbox.h > 0
                      THEN {<<t, "color_high">>, <<t, "color_low">>} ELSE {}))))

\* VChart._display(buf, tbox): its first statement calls
\* self._draw_borders_and_title(tbox) without the buf argument, which
\* raises TypeError before anything is drawn
VChart_display(ts, t, tbox0) ==
    Then(Called("_display", t, tbox0), Raise("TypeError"))

\* the glyph of a code point
Chr(v) == ToString(v)

\* (mutant of _generate_braille: the dot of the right sample is left out)
_generate_braille_LeftOnly(le, ri) ==
    Chr(BrailleBase + Index(braille_left, le))

\* _generate_braille(le, ri)
_generate_braille(le, ri) ==
    Chr(BrailleBase + (Index(braille_left, le) + Index(braille_right, ri)))

RECURSIVE SumFirst(_, _)
SumFirst(seq, n) == IF n <= 0 THEN 0 ELSE seq[n] + SumFirst(seq, n - 1)

\* _generate_filled_braille(lmax, rmax)
_generate_filled_braille(lmax, rmax) ==
    Chr(BrailleBase + SumFirst(braille_r_left, lmax) + SumFirst(braille_r_right, rmax))

\* (mutant of Q100: the sample is not subtracted from 1)
Q100_Direct(dp, h) == dp * h

\* q = (1 - dp / 100) * tbox.h for an integer sample, times 100.  The source
\* computes q in doubles; int(q) and the fractions taken of it agree with
\* the exact value for every sample 0 .. 100 and every height up to 4
\* (at height 5 they differ for the samples 80 and 90).
Q100(dp, h) == (100 - dp) * h

\* HChart._display(buf, tbox)
HChart_display(ts, t, tbox0) ==
    LET tbox == InnerBox(ts, t, tbox0)
        dps == ts[t].datapoints
        cell(dx, dy) ==
            LET dp_index == dy - tbox.w
                q100 == Q100(Index(dps, dp_index), tbox.h)
                int_q == TruncDiv(q100, 100)
                \* int((int(q) - q) * 8 - 1)
                index == TruncDiv((100 * int_q - q100) * 8 - 100, 100)
            IN  IF ~InRange(dps, dp_index) THEN " "
                ELSE IF dx = int_q
                THEN IF InRange(vbar_elements, index)
                     THEN Index(vbar_elements, index) ELSE " "
                ELSE IF dx < int_q THEN " "
                ELSE Index(vbar_elements, -1)
        row(dx) ==
            LET one(dy) == <<cell(dx, dy)>>
            IN  <<MoveTok(tbox.x + dx, tbox.y), TextTok(ForRange(one, tbox.w))>>
    IN  Then(Called("_display", t, tbox0),
        Then(_draw_borders_and_title(ts, t, tbox0),
             Out(<<ColorTok(ColorOf(ts, t, "text_color"))>> \o ForRange(row, tbox.h),
                 {<<t, "text_color">>})))

\* HBrailleChart._display(buf, tbox)
HBrailleChart_display(ts, t, tbox0) ==
    LET tbox == InnerBox(ts, t, tbox0)
        dps == ts[t].datapoints
        cell(dx, dy) ==
            LET dp_index == (dy - tbox.w) * 2
                q1 == Q100(Index(dps, dp_index), tbox.h)
                q2 == Q100(Index(dps, dp_index + 1), tbox.h)
                int_q1 == TruncDiv(q1, 100)
                int_q2 == TruncDiv(q2, 100)
                index1 == TruncDiv((q1 - 100 * int_q1) * 4, 100)
                index2 == TruncDiv((q2 - 100 * int_q2) * 4, 100)
            IN  IF ~InRange(dps, dp_index) \/ ~InRange(dps, dp_index + 1) THEN " "
                ELSE IF dx = int_q1
                THEN _generate_braille(index1, IF dx = int_q2 THEN index2 ELSE -1)
                ELSE IF dx = int_q2 THEN _generate_braille(-1, index2)
                ELSE " "
        row(dx) ==
            LET one(dy) == <<cell(dx, dy)>>
            IN  <<MoveTok(tbox.x + dx, tbox.y), TextTok(ForRange(one, tbox.w))>>
    IN  Then(Called("_display", t, tbox0),
        Then(_draw_borders_and_title(ts, t, tbox0),
             Out(<<ColorTok(ColorOf(ts, t, "text_color"))>> \o ForRange(row, tbox.h),
                 {<<t, "text_color">>})))

\* HBrailleFilledChart._display(buf, tbox)
HBrailleFilledChart_display(ts, t, tbox0) ==
    LET tbox == InnerBox(ts, t, tbox0)
        dps == ts[t].datapoints
        \* 3 - int((q - int(q)) * 4) in the row of q, 3 below it, 0 above it
        fill(dx, q100) ==
            LET int_q == TruncDiv(q100, 100)
            IN  IF dx = int_q THEN 3 - TruncDiv((q100 - 100 * int_q) * 4, 100)
                ELSE IF dx * 100 > q100 THEN 3
                ELSE 0
        cell(dx, dy) ==
            LET dp_index == (dy - tbox.w) * 2
            IN  IF ~InRange(dps, dp_index) \/ ~InRange(dps, dp_index + 1) THEN " "
                ELSE _generate_filled_braille(
                         fill(dx, Q100(Index(dps, dp_index), tbox.h)),
                         fill(dx, Q100(Index(dps, dp_index + 1), tbox.h)))
        row(dx) ==
            LET one(dy) == <<cell(dx, dy)>>
            IN  <<MoveTok(tbox.x + dx, tbox.y), TextTok(ForRange(one, tbox.w))>>
    IN  Then(Called("_display", t, tbox0),
        Then(_draw_borders_and_title(ts, t, tbox0),
             Out(<<ColorTok(ColorOf(ts, t, "text_color"))>> \o ForRange(row, tbox.h),
                 {<<t, "text_color">>})))

----------------------------------------------------------------------------
(* Split containers *)

RECURSIVE Tile_display(_, _, _)

\* (mutant of ItemExtent: the extent is rounded up instead of down)
ItemExtent_RoundUp(extent, n) == 0 - ((0 - extent) \div n)

\* tbox.h // len(self.items) and tbox.w // len(self.items)
ItemExtent(extent, n) == extent \div n

\* The box VSplit._display hands to its k-th child, k = 0 .. n-1
VSplitItemBox(tbox, n, k) ==
    TBox(tbox.x + k * ItemExtent(tbox.h, n), tbox.y, tbox.w, ItemExtent(tbox.h, n))

\* The box HSplit._display hands to its k-th child, k = 0 .. n-1
HSplitItemBox(tbox, n, k) ==
    TBox(tbox.x, tbox.y + k * ItemExtent(tbox.w, n), ItemExtent(tbox.w, n), tbox.h)

\* for i in self.items: i._display(buf, TBox(...)), from the k-th child on
RECURSIVE SplitItems(_, _, _, _)
SplitItems(ts, t, tbox, k) ==
    LET n == Len(ts[t].items)
    IN  IF k >= n THEN Out(<<>>, {})
        ELSE Then(Tile_display(ts, ts[t].items[k + 1],
                               IF ts[t].cls = "VSplit" THEN VSplitItemBox(tbox, n, k)
                               ELSE HSplitItemBox(tbox, n, k)),
                  SplitItems(ts, t, tbox, k + 1))

\* VSplit._display: leftover_x, and the leftover box it fills when
\* leftover_x > 0
VSplit_leftover_x(tbox, n) == tbox.h - (tbox.x + n * ItemExtent(tbox.h, n)) + 1
VSplitLeftover(tbox, n) ==
    TBox(tbox.x + n * ItemExtent(tbox.h, n), tbox.y, tbox.w, VSplit_leftover_x(tbox, n))

\* HSplit._display: leftover_y, and the leftover box it fills when
\* leftover_y > 0
HSplit_leftover_y(tbox, n) == tbox.w - (tbox.y + n * ItemExtent(tbox.w, n)) + 1
HSplitLeftover(tbox, n) ==
    TBox(tbox.x, tbox.y + n * ItemExtent(tbox.w, n), HSplit_leftover_y(tbox, n) - 1, tbox.h)

\* VSplit._display(buf, tbox) and HSplit._display(buf, tbox)
Split_display(ts, t, tbox0) ==
    LET tbox == InnerBox(ts, t, tbox0)
        n == Len(ts[t].items)
        leftover == IF ts[t].cls = "VSplit" THEN VSplitLeftover(tbox, n)
                    ELSE HSplitLeftover(tbox, n)
        fills == IF ts[t].cls = "VSplit" THEN VSplit_leftover_x(tbox, n) > 0
                 ELSE HSplit_leftover_y(tbox, n) > 0
    IN  Then(Called("_display", t, tbox0),
        Then(_draw_borders_and_title(ts, t, tbox0),
             IF n = 0 THEN Out(<<>>, {})
             ELSE Then(SplitItems(ts, t, tbox, 0),
                       IF fills THEN _fill_area(t, leftover, " ")
                       ELSE Out(<<>>, {}))))

\* tile._display(buf, tbox), dispatched on the class of the tile
Tile_display(ts, t, tbox) ==
    CASE ts[t].cls \in {"VSplit", "HSplit"} -> Split_display(ts, t, tbox)
      [] ts[t].cls = "Text" -> Text_display(ts, t, tbox)
      [] ts[t].cls = "Log" -> Log_display(ts, t, tbox)
      [] ts[t].cls = "HGauge" -> HGauge_display(ts, t, tbox)
      [] ts[t].cls = "VGauge" -> VGauge_display(ts, t, tbox)
      [] ts[t].cls = "VChart" -> VChart_display(ts, t, tbox)
      [] ts[t].cls = "HChart" -> HChart_display(ts, t, tbox)
      [] ts[t].cls = "HBrailleChart" -> HBrailleChart_display(ts, t, tbox)
      [] ts[t].cls = "HBrailleFilledChart" -> HBrailleFilledChart_display(ts, t, tbox)

----------------------------------------------------------------------------
(* What the terminal shows once buf is printed *)

\* The cursor is where the last move before token i put it, advanced by
\* one column for every glyph written since.
LastMove(b, i) ==
    CHOOSE j \in 0..(i - 1) :
        /\ j = 0 \/ b[j].tok = "move"
        /\ \A k \in (j + 1)..(i - 1) : b[k].tok # "move"

RECURSIVE GlyphsBetween(_, _, _)
GlyphsBetween(b, j, i) ==
    IF j >= i THEN 0
    ELSE (IF b[j].tok = "text" THEN Len(b[j].s) ELSE 0) + GlyphsBetween(b, j + 1, i)

CursorRow(b, i) == IF LastMove(b, i) = 0 THEN 0 ELSE b[LastMove(b, i)].x
CursorCol(b, i) == (IF LastMove(b, i) = 0 THEN 0 ELSE b[LastMove(b, i)].y)
                   + GlyphsBetween(b, LastMove(b, i) + 1, i)

\* every glyph the tokens of b write: token index, row, column, glyph
Writes(b) ==
    UNION {{[i |-> i, r |-> CursorRow(b, i), c |-> CursorCol(b, i) + j - 1,
             g |-> b[i].s[j]] : j \in 1..Len(b[i].s)}
           : i \in {k \in 1..Len(b) : b[k].tok = "text"}}

\* the cells written to
Written(b) == {<<w.r, w.c>> : w \in Writes(b)}

\* the glyph shown at row r, column c (the one written there last);
\* "" where nothing was written
At(b, r, c) ==
    LET W == {w \in Writes(b) : w.r = r /\ w.c = c}
    IN  IF W = {} THEN ""
        ELSE (CHOOSE w \in W : \A v \in W : v.i <= w.i).g

\* the cells of a box
CellsOf(tbox) == {<<r, c>> : r \in Range(tbox.x, tbox.x + tbox.h),
                             c \in Range(tbox.y, tbox.y + tbox.w)}

----------------------------------------------------------------------------
\* Log(), VChart(), HChart(), HBrailleChart(), HBrailleFilledChart() with
\* the given border flag; every other argument at its default
NewBufferTile(cls, border) == Tile__init__(cls, <<>>, border, NoColors)

\* The buffer a tile of class cls appends to
BufferOf(t) == IF t.cls = "Log" THEN t.logs ELSE t.datapoints

----------------------------------------------------------------------------
(* The producer of SpecBuf: the n-th item it appends (n = 1, 2, ...).     *)
(* Log lines are told apart by their number and are 1 to 3 cells long;     *)
(* chart samples run through [0, 100].                                     *)

Msg(n) == Rep(ToString(n), 1 + (n % 3))
Sample(n) == (n * 37) % 101

NextItem(t) == IF tiles[t].cls = "Log" THEN Msg(Len(appended[t]) + 1)
               ELSE Sample(Len(appended[t]) + 1)

----------------------------------------------------------------------------
(* SpecBuf: one Log or chart, fed by append *)

InitBuf ==
    /\ \E cls \in BufferCls, border \in BOOLEAN :
           tiles = [t \in {1} |-> NewBufferTile(cls, border)]
    /\ box = TBox(MaxOff, MaxOff, 0, 0)
    /\ buf = <<>>
    /\ trace = <<>>
    /\ appended = [t \in {1} |-> <<>>]
    /\ given = [t \in {1} |-> NoColors]
    /\ call = [op |-> "init", tile |-> 1, arg |-> None]
    /\ result = None
    /\ terminals = <<>>
    /\ stdout = <<>>

\* tile.append(item), while fewer than `limit` items were appended
DoAppend(t, limit) ==
    /\ tiles[t].cls \in BufferCls
    /\ Len(appended[t]) < limit
    /\ LET item == NextItem(t)
       IN  /\ tiles' = [tiles EXCEPT ![t] = IF @.cls = "Log" THEN LogAppend(@, item)
                                            ELSE ChartAppend(@, item)]
           /\ appended' = [appended EXCEPT ![t] = Append(@, item)]
           /\ call' = [op |-> "append", tile |-> t, arg |-> item]
    /\ buf' = <<>>
    /\ trace' = <<>>
    /\ result' = None
    /\ UNCHANGED <<terminals, stdout, box, given>>

NextBuf == \E t \in DOMAIN tiles : DoAppend(t, MaxLenOf(tiles[t].cls) + MaxOver)

SpecBuf == InitBuf /\ [][NextBuf]_vars

----------------------------------------------------------------------------
(* SpecRender: one Log or chart, fed by append and drawn by _display *)

\* The areas a Log or chart is laid out in
DisplayBoxes == {TBox(MaxOff, MaxOff, w, h) : w \in 0..MaxW, h \in 0..MaxH}

\* The area grows or shrinks by one row or column, or moves on one axis
\* (the terminal is resized, the layout around the tile changes), and
\* stays one of `boxes`
Resize(boxes) ==
    /\ \E b \in boxes :
           /\ Cardinality({f \in {"x", "y", "w", "h"} : b[f] # box[f]}) = 1
           /\ Abs(b.w - box.w) <= 1
           /\ Abs(b.h - box.h) <= 1
           /\ box' = b
           /\ call' = [op |-> "resize", tile |-> 0, arg |-> b]
    /\ buf' = <<>>
    /\ trace' = <<>>
    /\ result' = None
    /\ UNCHANGED <<terminals, stdout, tiles, appended, given>>

\* tile._display(buf, tbox) with a fresh buf and the current area
DoDisplay(t) ==
    \E r \in {Tile_display(tiles, t, box)} :
        /\ buf' = r.buf
        /\ trace' = r.trace
        /\ tiles' = ReadAll(tiles, r.reads)
        /\ result' = r.err
        /\ call' = [op |-> "_display", tile |-> t, arg |-> box]
        /\ UNCHANGED <<terminals, stdout, appended, box, given>>

NextRender ==
    \/ \E t \in DOMAIN tiles : DoAppend(t, MaxAppends)
    \/ Resize(DisplayBoxes)
    \/ \E t \in DOMAIN tiles : DoDisplay(t)

SpecRender == InitBuf /\ [][NextRender]_vars

----------------------------------------------------------------------------
(* SpecSplit: a VSplit or HSplit of Text tiles, the last child possibly a  *)
(* nested split, laid out in a changing area and drawn by _display         *)

SplitCls == {"VSplit", "HSplit"}

\* Text(text, color=color, title=title, border=border, border_color=...,
\* color_high=..., color_low=...); text is held as its splitlines().
\* Text.__init__ takes color and does not hand it to Tile.__init__.
NewText(text, color, title, border, kw) ==
    [Tile__init__("Text", title, border, [kw EXCEPT !["text_color"] = NoColor])
        EXCEPT !.text = text]

\* Split.update_children on tile t of heap ts
update_children(ts, t) ==
    [i \in DOMAIN ts |->
        IF \E k \in DOMAIN ts[t].items : ts[t].items[k] = i
        THEN [ts[i] EXCEPT !.parent = t] ELSE ts[i]]

\* VSplit(*items, title=title, border=border, color=..., border_color=...,
\* color_high=..., color_low=...) or HSplit(...) stored as tile t
NewSplit(ts, t, cls, items, title, border, colors) ==
    update_children(
        [i \in DOMAIN ts \cup {t} |->
            IF i = t
            THEN [Tile__init__(cls, title, border, colors) EXCEPT !.items = items]
            ELSE ts[i]], t)

\* n Text tiles with ids first .. first+n-1, one line of text each
TextTiles(first, n) ==
    [i \in first..(first + n - 1) |-> NewText(<<<<ToString(i)>>>>, NoColor, <<>>, FALSE, NoColors)]

SplitBoxes == {TBox(x, y, w, h) : x \in {0, MaxOff}, y \in {0, MaxOff},
                                  w \in 0..(MaxW + 2), h \in 0..(MaxH + 2)}

\* root = cls(Text, ..., Text) or cls(Text, ..., inner(Text, Text)); the
\* root is tile 1, its children tiles 2 .. n+1
InitSplit ==
    /\ \E cls \in SplitCls, n \in 1..MaxItems, border \in BOOLEAN,
          title \in {<<>>, <<"T">>}, inner \in SplitCls \cup {"Text"} :
           LET leaves == TextTiles(2, n)
               nested == NewSplit(TextTiles(n + 2, 2), n + 1, inner,
                                  <<n + 2, n + 3>>, <<>>, FALSE, NoColors)
               children == IF inner = "Text" THEN leaves
                           ELSE [i \in DOMAIN leaves \cup DOMAIN nested |->
                                    IF i \in DOMAIN nested THEN nested[i]
                                    ELSE leaves[i]]
           IN  tiles = NewSplit(children, 1, cls, [k \in 1..n |-> k + 1],
                                title, border, NoColors)
    /\ box = TBox(0, 0, 0, 0)
    /\ buf = <<>>
    /\ trace = <<>>
    /\ appended = [t \in DOMAIN tiles |-> <<>>]
    /\ given = [t \in DOMAIN tiles |-> NoColors]
    /\ call = [op |-> "init", tile |-> 1, arg |-> None]
    /\ result = None
    /\ terminals = <<>>
    /\ stdout = <<>>

NextSplit ==
    \/ Resize(SplitBoxes)
    \/ DoDisplay(1)

SpecSplit == InitSplit /\ [][NextSplit]_vars

----------------------------------------------------------------------------
(* SpecColor: tiles are constructed, nested into splits, have their        *)
(* colours read and set with set_color                                     *)

Red == RGB(255, 0, 0)

\* the colour strings handed to set_color, as sequences of characters
ColorStrings ==
    {<<"#", "f", "f", "0", "0", "0", "0">>,
     <<"#", "f", "f", "0", "0", "0">>,
     <<"#", "g", "g", "0", "0", "0", "0">>,
     <<"r", "e", "d">>}

\* the colour kinds the operations of SpecColor are applied to: text_color,
\* which `color` sets, and one of the three kinds set by a keyword of the
\* same name
Kinds == {"text_color", "border_color"}

\* the names handed to set_color
NamesGiven == Kinds \cup {"color"}

\* HGauge(label, val, color=color, **kw): color goes on to Tile.__init__
NewHGauge(label, val, color, title, border, kw) ==
    [Tile__init__("HGauge", title, border, [kw EXCEPT !["text_color"] = color])
        EXCEPT !.label = label, !.value = val]

\* the colour keywords of a constructor call that gives colour c for `name`
OneColor(name, c) == [n \in ColorNames |-> IF n = name THEN c ELSE NoColor]

\* Tile.set_color(name, value) on tile t of heap ts, value of the given
\* kind ("str", "RGB or None", "other"): the heap afterwards and the
\* exception raised, if any
set_color(ts, t, name, kind, value) ==
    IF name \notin ColorNames THEN [ts |-> ts, err |-> "ValueError"]
    ELSE IF kind = "str"
    THEN IF RGB_parse_raises(value) THEN [ts |-> ts, err |-> "ValueError"]
         ELSE [ts |-> [ts EXCEPT ![t].colors[name] = RGB_parse(value)],
               err |-> None]
    ELSE IF kind = "RGB or None"
    THEN [ts |-> [ts EXCEPT ![t].colors[name] = value], err |-> None]
    ELSE [ts |-> ts, err |-> "ValueError"]

InitColor ==
    /\ tiles = <<>>
    /\ given = <<>>
    /\ box = TBox(0, 0, 0, 0)
    /\ buf = <<>>
    /\ trace = <<>>
    /\ appended = <<>>
    /\ call = [op |-> "init", tile |-> 0, arg |-> None]
    /\ result = None
    /\ terminals = <<>>
    /\ stdout = <<>>

\* t = Text("x", <name>=c) or t = HGauge(<name>=c), the keyword being
\* `color` for text_color
NewLeaf(cls, name, c) ==
    /\ Len(tiles) < MaxTiles
    /\ tiles' = Append(tiles,
                       IF cls = "Text"
                       THEN NewText(<<<<"x">>>>, OneColor(name, c)["text_color"],
                                    <<>>, TRUE, OneColor(name, c))
                       ELSE NewHGauge(<<>>, 100, OneColor(name, c)["text_color"],
                                      <<>>, TRUE, OneColor(name, c)))
    /\ given' = Append(given, OneColor(name, c))
    /\ call' = [op |-> cls, tile |-> Len(tiles) + 1, arg |-> <<name, c>>]
    /\ result' = None
    /\ UNCHANGED <<terminals, stdout, box, buf, trace, appended>>

\* t = VSplit(i, <name>=c) around an existing tile i
NewParent(i, name, c) ==
    /\ Len(tiles) < MaxTiles
    /\ i \in DOMAIN tiles
    /\ tiles' = NewSplit(tiles, Len(tiles) + 1, "VSplit", <<i>>, <<>>, FALSE,
                         OneColor(name, c))
    /\ given' = Append(given, OneColor(name, c))
    /\ call' = [op |-> "VSplit", tile |-> Len(tiles) + 1, arg |-> <<name, c>>]
    /\ result' = None
    /\ UNCHANGED <<terminals, stdout, box, buf, trace, appended>>

\* t.text_color, t.border_color, t.color_high or t.color_low is read
ReadColor(t, name) ==
    /\ t \in DOMAIN tiles
    /\ \E r \in {_inherit_style(tiles, t, name)} :
           /\ tiles' = r.ts
           /\ result' = r.col
    /\ call' = [op |-> "read", tile |-> t, arg |-> name]
    /\ UNCHANGED <<terminals, stdout, box, buf, trace, appended, given>>

\* t.set_color(name, value)
SetColor(t, name, kind, value) ==
    /\ t \in DOMAIN tiles
    /\ \E r \in {set_color(tiles, t, name, kind, value)} :
           /\ tiles' = r.ts
           /\ result' = r.err
           /\ given' = IF r.err = None
                       THEN [given EXCEPT ![t][name] = r.ts[t].colors[name]]
                       ELSE given
    /\ call' = [op |-> "set_color", tile |-> t, arg |-> <<name, kind, value>>]
    /\ UNCHANGED <<terminals, stdout, box, buf, trace, appended>>

NextColor ==
    \/ \E cls \in {"Text", "HGauge"}, name \in Kinds, c \in {NoColor, Red} :
           NewLeaf(cls, name, c)
    \/ \E i \in 1..MaxTiles, name \in Kinds, c \in {NoColor, Red} :
           NewParent(i, name, c)
    \/ \E t \in 1..MaxTiles, name \in Kinds : ReadColor(t, name)
    \/ \E t \in 1..MaxTiles, name \in NamesGiven, s \in ColorStrings :
           SetColor(t, name, "str", s)
    \/ \E t \in 1..MaxTiles, name \in NamesGiven, c \in {NoColor, Red} :
           SetColor(t, name, "RGB or None", c)
    \/ \E t \in 1..MaxTiles, name \in NamesGiven : SetColor(t, name, "other", 7)

SpecColor == InitColor /\ [][NextColor]_vars

----------------------------------------------------------------------------
(* SpecGauge: an HGauge or VGauge whose value is set, laid out in a        *)
(* changing area and drawn by _display                                     *)

\* VGauge(val, color=color, **kw): color goes on to Tile.__init__
NewVGauge(val, color, title, border, kw) ==
    [Tile__init__("VGauge", title, border, [kw EXCEPT !["text_color"] = color])
        EXCEPT !.value = val]

\* the values a gauge is set to
GaugeValues == {0, 37, 100}

GaugeBoxes == {TBox(MaxOff, MaxOff, w, h) : w \in 0..(2 * MaxW), h \in 0..MaxH}

\* HGauge(), HGauge(label="ab") or VGauge(), with or without border; val
\* has its default
InitGauge ==
    /\ \E border \in BOOLEAN :
           \/ \E label \in {<<>>, <<"a", "b">>} :
                  tiles = <<NewHGauge(label, 100, NoColor, <<>>, border, NoColors)>>
           \/ tiles = <<NewVGauge(100, NoColor, <<>>, border, NoColors)>>
    /\ box = TBox(MaxOff, MaxOff, 0, 0)
    /\ buf = <<>>
    /\ trace = <<>>
    /\ appended = <<<<>>>>
    /\ given = <<NoColors>>
    /\ call = [op |-> "init", tile |-> 1, arg |-> None]
    /\ result = None
    /\ terminals = <<>>
    /\ stdout = <<>>

\* gauge.value = v
SetValue(t, v) ==
    /\ tiles' = [tiles EXCEPT ![t].value = v]
    /\ call' = [op |-> "value", tile |-> t, arg |-> v]
    /\ buf' = <<>>
    /\ trace' = <<>>
    /\ result' = None
    /\ UNCHANGED <<terminals, stdout, box, appended, given>>

NextGauge ==
    \/ \E v \in GaugeValues : SetValue(1, v)
    \/ Resize(GaugeBoxes)
    \/ DoDisplay(1)

SpecGauge == InitGauge /\ [][NextGauge]_vars

----------------------------------------------------------------------------
(* SpecPure: the colour functions RGB.parse and interpolate_colors applied *)
(* to inputs drawn from bounded sets                                       *)

\* '%02x' % n and '%02X' % n for a channel n: `digits` is HexDigits or
\* HexDigitsUpper
Hex2(n, digits) == <<digits[(n \div 16) + 1], digits[(n % 16) + 1]>>

\* the channel triples whose strings are parsed: every value of 0 .. 255
\* in each position, next to the values of `others`
ParsedTriples ==
    LET others == {0, 165, 255}
    IN  UNION {{<<n, a, b>>, <<a, n, b>>, <<a, b, n>>} :
                  n \in 0..255, a \in others, b \in others}

\* further strings handed to RGB.parse: those of ColorStrings, strings with
\* 5 and with 7 digits and *HHSSVV strings
ParsedStrings ==
    ColorStrings \cup
    {<<"#", "1", "2", "3", "4", "5", "6", "7">>,
     <<"*", "0", "0", "f", "f", "f", "f">>,
     <<"*", "5", "5", "8", "0", "f", "f">>,
     <<"*", "1", "2", "3", "4", "5">>,
     <<"#">>,
     <<"#", "+", "1", " ", "2", "-", "3">>}

\* the colours handed to interpolate_colors
PureColors ==
    {RGB(0, 0, 0), RGB(255, 255, 255), RGB(128, 128, 128), Red, RGB(1, 2, 3),
     RGB(2, 0, 0)}

\* the inputs are drawn here: `call` holds the call to make, `given` the
\* channels a parsed string was formatted from, `result` is pending
InitPure ==
    /\ tiles = <<>>
    /\ box = TBox(0, 0, 0, 0)
    /\ buf = <<>>
    /\ trace = <<>>
    /\ appended = <<>>
    /\ result = [err |-> "pending", val |-> NoColor]
    /\ terminals = <<>>
    /\ stdout = <<>>
    /\ \/ \E c \in ParsedTriples, digits \in {HexDigits, HexDigitsUpper} :
            /\ given = c
            /\ call = [op |-> "parse", tile |-> 0,
                       arg |-> <<"#">> \o Hex2(c[1], digits)
                                      \o Hex2(c[2], digits)
                                      \o Hex2(c[3], digits)]
       \/ \E color \in ParsedStrings :
            /\ given = <<>>
            /\ call = [op |-> "parse", tile |-> 0, arg |-> color]
       \/ \E high \in PureColors, low \in PureColors, steps \in 0..MaxSteps,
             pos \in 0..MaxSteps :
            /\ given = <<>>
            /\ call = [op |-> "interpolate_colors", tile |-> 0,
                       arg |-> <<high, low, steps, pos>>]

\* RGB.parse(color)
DoParse(color) ==
    /\ call.op = "parse"
    /\ call.arg = color
    /\ result.err = "pending"
    /\ result' = IF RGB_parse_raises(color)
                 THEN [err |-> "ValueError", val |-> NoColor]
                 ELSE [err |-> None, val |-> RGB_parse(color)]
    /\ UNCHANGED <<terminals, stdout, tiles, given, box, buf, trace, appended, call>>

\* interpolate_colors(high, low, steps, pos), computed in doubles
DoInterpolate(high, low, steps, pos) ==
    /\ call.op = "interpolate_colors"
    /\ call.arg = <<high, low, steps, pos>>
    /\ result.err = "pending"
    /\ \E e \in {interpolate_colors_error(high, low, steps, pos)} :
         IF e # None THEN result' = [err |-> e, val |-> NoColor]
         ELSE \E c \in interpolate_results(high, low, steps, pos) :
                  result' = [err |-> None, val |-> c]
    /\ UNCHANGED <<terminals, stdout, tiles, given, box, buf, trace, appended, call>>

NextPure ==
    \/ \E color \in {call.arg} : DoParse(color)
    \/ \E a \in {call.arg} : DoInterpolate(a[1], a[2], a[3], a[4])

SpecPure == InitPure /\ [][NextPure]_vars

----------------------------------------------------------------------------
(* SpecDisplay: display() on the root of a tree, with and without a       *)
(* terminal argument                                                       *)

\* Terminal(): its width and height
Terminal(width, height) == [width |-> width, height |-> height]

TerminalSizes == {Terminal(w, h) : w \in 1..MaxW, h \in 1..MaxH}

\* the trees displayed: tile 1 is the root
DisplayTrees(border) ==
    LET text(lines) == NewText(lines, NoColor, <<>>, FALSE, NoColors)
        two == <<<<"a", "b">>, <<"c">>>>
        one == <<<<"d">>>>
    IN  {[t \in {1} |-> NewText(two, NoColor, <<>>, border, NoColors)],
         [t \in {1} |-> NewHGauge(<<>>, 100, NoColor, <<>>, border, NoColors)],
         NewSplit([t \in 2..3 |-> text(IF t = 2 THEN two ELSE one)],
                  1, "VSplit", <<2, 3>>, <<>>, border, NoColors),
         NewSplit([t \in 2..3 |-> IF t = 2 THEN text(one)
                                  ELSE NewBufferTile("VChart", FALSE)],
                  1, "HSplit", <<2, 3>>, <<>>, border, NoColors)}

\* two terminals exist before the first display(); a default one is
\* created by display() when it is given none
InitDisplay ==
    /\ \E border \in BOOLEAN : tiles \in DisplayTrees(border)
    /\ \E a \in TerminalSizes :
           terminals = <<a, Terminal(MaxW, MaxH)>>
    /\ box = TBox(0, 0, 0, 0)
    /\ buf = <<>>
    /\ trace = <<>>
    /\ stdout = <<>>
    /\ appended = [t \in DOMAIN tiles |-> <<>>]
    /\ given = [t \in DOMAIN tiles |-> NoColors]
    /\ call = [op |-> "init", tile |-> 1, arg |-> 0]
    /\ result = None

\* (mutant of _Buf_print: one print per token)
_Buf_print_PerToken(k, b) == [i \in 1..Len(b) |-> [t |-> k, tokens |-> <<b[i]>>]]

\* _Buf.print(): the prints made, one of the joined buffer; k is the
\* terminal whose escape sequences the tokens are
_Buf_print(k, b) == <<[t |-> k, tokens |-> b]>>

\* (mutant of acquire: the terminal given to the call is preferred to the
\* cached one)
acquire_Given(t, terminal) ==
    IF terminal # 0 THEN terminal
    ELSE IF tiles[t]._terminal # 0 THEN tiles[t]._terminal
    ELSE Len(terminals) + 1

\* the terminal display(terminal) renders to: self._terminal once set, else
\* the given one, else a new Terminal()
acquire(t, terminal) ==
    IF tiles[t]._terminal # 0 THEN tiles[t]._terminal
    ELSE IF terminal # 0 THEN terminal
    ELSE Len(terminals) + 1

\* tile.display(terminal); terminal = 0 stands for None, and `size` is the
\* size of the default Terminal() if one is created
display(t, terminal, size) ==
    LET created == tiles[t]._terminal = 0 /\ terminal = 0
        k == acquire(t, terminal)
        park(ts, T) ==
            <<MoveTok(T.height - 3, 0), ColorTok(ColorOf(ts, t, "border_color"))>>
        print(ts, T, r) ==
            /\ trace' = r.trace
            /\ result' = r.err
            /\ box' = TBox(0, 0, T.width, T.height - 1)
            /\ IF r.err # None
               THEN /\ buf' = r.buf
                    /\ stdout' = <<>>
                    /\ tiles' = ReadAll(ts, r.reads)
               ELSE /\ buf' = r.buf \o park(ReadAll(ts, r.reads), T)
                    /\ stdout' = _Buf_print(k, buf')
                    /\ tiles' = ReadAll(ts, r.reads \cup {<<t, "border_color">>})
        render(ts, T) ==
            print(ts, T, Tile_display(ts, t, TBox(0, 0, T.width, T.height - 1)))
        cache(terms) ==
            /\ terminals' = terms
            /\ render([tiles EXCEPT ![t]._terminal = k], terms[k])
    IN  /\ cache(IF created THEN Append(terminals, size) ELSE terminals)
        /\ call' = [op |-> "display", tile |-> t, arg |-> terminal]
        /\ UNCHANGED <<appended, given>>

NextDisplay ==
    \E terminal \in 0..2, size \in {Terminal(MaxW, 2), Terminal(2, MaxH)} :
        display(1, terminal, size)

SpecDisplay == InitDisplay /\ [][NextDisplay]_vars

----------------------------------------------------------------------------
(* SpecColorRange: ColorRangeVGauge of src/dashing/dashing.py, the only    *)
(* definition of that class.  It prints as it draws and takes ANSI colour  *)
(* numbers; the tile has no title and no border (the defaults), so its     *)
(* _draw_borders_and_title prints nothing and returns the box unchanged.   *)

\* ColorRangeVGauge(val=val, colormap=colormap)
NewColorRangeVGauge(val, colormap) ==
    [cls |-> "ColorRangeVGauge", title |-> None, border_color |-> None,
     color |-> 0, _terminal |-> 0, colormap |-> colormap, value |-> val]

\* (mutant of colormap_color: the first threshold that is at least the value)
RECURSIVE colormap_color_AtLeast(_, _, _, _)
colormap_color_AtLeast(colormap, value, i, col) ==
    IF i > Len(colormap) THEN col
    ELSE IF colormap[i][1] >= value THEN colormap[i][2]
    ELSE colormap_color_AtLeast(colormap, value, i + 1, colormap[i][2])

\* col = 0; for thresh, col in self.colormap: if thresh > self.value: break
\* -- the value of col after the loop, from pair i on with col as it is
RECURSIVE colormap_color(_, _, _, _)
colormap_color(colormap, value, i, col) ==
    IF i > Len(colormap) THEN col
    ELSE IF colormap[i][1] > value THEN colormap[i][2]
    ELSE colormap_color(colormap, value, i + 1, colormap[i][2])

\* ColorRangeVGauge._display(tbox, parent): the prints it makes, in order
ColorRangeVGauge_display(ts, t, tbox) ==
    LET \* nh = tbox.h * (value / 100.5) = nh201 / 201
        nh201 == tbox.h * ts[t].value * 2
        int_nh == TruncDiv(nh201, 201)
        index == TruncDiv((nh201 - 201 * int_nh) * 8, 201)
        col == colormap_color(ts[t].colormap, ts[t].value, 1, 0)
        row(dx) == <<<<MoveTok(tbox.x + tbox.h - dx - 1, tbox.y),
                       TextTok(IF dx < int_nh
                               THEN Rep(Index(vbar_elements, -1), tbox.w)
                               ELSE IF dx = int_nh
                               THEN Rep(Index(vbar_elements, index), tbox.w)
                               ELSE Rep(" ", tbox.w))>>>>
    IN  <<<<MoveTok(tbox.x, tbox.y), ColorTok(<<col>>)>>>>
            \o ForRange(row, tbox.h)

\* the colormap is in ascending threshold order, or the empty default
InitColorRange ==
    /\ \E colormap \in {<<>>, <<<<50, 3>>>>, <<<<50, 2>>, <<100, 1>>>>,
                         <<<<33, 2>>, <<66, 4>>, <<100, 1>>>>} :
           tiles = <<NewColorRangeVGauge(100, colormap)>>
    /\ box = TBox(MaxOff, MaxOff, 0, 0)
    /\ buf = <<>>
    /\ trace = <<>>
    /\ appended = <<<<>>>>
    /\ given = <<NoColors>>
    /\ call = [op |-> "init", tile |-> 1, arg |-> None]
    /\ result = None
    /\ terminals = <<>>
    /\ stdout = <<>>

\* tile._display(tbox, None) of a ColorRangeVGauge with the current area
DoDisplayColorRange(t) ==
    \E prints \in {ColorRangeVGauge_display(tiles, t, box)} :
        /\ stdout' = [i \in DOMAIN prints |-> [t |-> 0, tokens |-> prints[i]]]
        /\ buf' = <<>>
        /\ trace' = <<[fn |-> "_display", tile |-> t, tbox |-> box]>>
        /\ result' = None
        /\ call' = [op |-> "_display", tile |-> t, arg |-> box]
        /\ UNCHANGED <<tiles, terminals, appended, box, given>>

NextColorRange ==
    \/ \E v \in {0, 32, 33, 50, 65, 66, 99, 100} : SetValue(1, v)
    \/ Resize(DisplayBoxes)
    \/ DoDisplayColorRange(1)

SpecColorRange == InitColorRange /\ [][NextColorRange]_vars

----------------------------------------------------------------------------
(* SpecProducer: one Log or HChart whose _display runs row by row (one    *)
(* iteration of its `for dx` loop is one step) while a producer appends:  *)
(* the code takes no lock, so an append may fall between two iterations.  *)

\* The rows the `for dx` loop of _display writes in the area `box`
DisplayRows(t) == Max(InnerBox(tiles, t, box).h, 0)

\* _display of tile t is between its first and its last loop iteration
InDisplay(t) ==
    /\ call.op = "_display"
    /\ call.tile = t
    /\ call.arg.dx < DisplayRows(t)

\* What the loop iteration of a pass reads: Log._display took n_logs and
\* start once, before the loop, and its generator reads self.logs[ln] when
\* the iteration asks for it, so it sees the first n_logs lines of the deque
\* as it is now; HChart._display reads self.datapoints[-tbox.w + dy] anew
\* in every iteration
SeenBy(ts, t, n_logs) ==
    IF ts[t].cls = "Log"
    THEN [ts EXCEPT ![t].logs = SubSeq(@, 1, Min(n_logs, Len(@)))]
    ELSE ts

\* The tokens _display adds to buf up to and including iteration dx - 1
\* (dx = 0: borders, title and colour only), on the buffer as seen now
AddedUpTo(r, cls, rows, dx) ==
    LET per_row == IF cls = "Log" THEN 4 ELSE 2
    IN  SubSeq(r.buf, 1, Len(r.buf) - per_row * (rows - dx))

InitProducer ==
    /\ \E cls \in {"Log", "HChart"}, border \in BOOLEAN :
           tiles = [t \in {1} |-> NewBufferTile(cls, border)]
    /\ box = TBox(MaxOff, MaxOff, MaxW, MaxH)
    /\ buf = <<>>
    /\ trace = <<>>
    /\ appended = [t \in {1} |-> <<>>]
    /\ given = <<>>
    /\ call = [op |-> "init", tile |-> 1, arg |-> None]
    /\ result = None
    /\ terminals = <<>>
    /\ stdout = <<>>

\* tile._display(buf, tbox) starts: borders, title, the locals n_logs and
\* start. `given` keeps the contents of the tile during the pass.
BeginDisplay(t) ==
    /\ ~InDisplay(t)
    /\ \E r \in {Tile_display(tiles, t, box)} :
           /\ r.err = None
           /\ buf' = AddedUpTo(r, tiles[t].cls, DisplayRows(t), 0)
           /\ tiles' = ReadAll(tiles, r.reads)
           /\ given' = <<ReadAll(tiles, r.reads)>>
    /\ call' = [op |-> "_display", tile |-> t,
                arg |-> [dx |-> 0, n_logs |-> Len(BufferOf(tiles[t]))]]
    /\ UNCHANGED <<terminals, stdout, appended, box, trace, result>>

\* One iteration of the `for dx` loop: the row dx, from the buffer as it is
DisplayRow(t) ==
    /\ InDisplay(t)
    /\ \E r \in {Tile_display(SeenBy(tiles, t, call.arg.n_logs), t, box)} :
           LET rows == DisplayRows(t)
               dx == call.arg.dx
               upto == AddedUpTo(r, tiles[t].cls, rows, dx)
               with == AddedUpTo(r, tiles[t].cls, rows, dx + 1)
           IN  buf' = buf \o SubSeq(with, Len(upto) + 1, Len(with))
    /\ call' = [call EXCEPT !.arg.dx = @ + 1]
    /\ UNCHANGED <<terminals, stdout, tiles, appended, box, trace, result,
                   given>>

\* tile.append(item) by the producer, before, between or after the loop
\* iterations of a pass; at most MaxOver appends fall into one pass
Produce(t) ==
    /\ Len(appended[t]) < MaxAppends
    /\ InDisplay(t) => Len(given) <= MaxOver
    /\ \E after \in {IF tiles[t].cls = "Log" THEN LogAppend(tiles[t], NextItem(t))
                     ELSE ChartAppend(tiles[t], NextItem(t))} :
           /\ tiles' = [tiles EXCEPT ![t] = after]
           /\ IF InDisplay(t)
              THEN /\ given' = Append(given, [tiles EXCEPT ![t] = after])
                   /\ UNCHANGED <<buf, call>>
              ELSE /\ given' = <<>>
                   /\ buf' = <<>>
                   /\ call' = [op |-> "append", tile |-> t, arg |-> NextItem(t)]
    /\ appended' = [appended EXCEPT ![t] = Append(@, NextItem(t))]
    /\ UNCHANGED <<terminals, stdout, box, trace, result>>

NextProducer ==
    \/ \E t \in DOMAIN tiles : BeginDisplay(t)
    \/ \E t \in DOMAIN tiles : DisplayRow(t)
    \/ \E t \in DOMAIN tiles : Produce(t)

SpecProducer == InitProducer /\ [][NextProducer]_vars

----------------------------------------------------------------------------
(* SpecItems: tiles are constructed, and the list `items` of a Split is   *)
(* changed in place, as the module's documentation invites to.            *)

\* s.items.append(t): `items` is a plain list, nothing else is touched
ItemsAppend(s, t) ==
    /\ s \in DOMAIN tiles
    /\ t \in DOMAIN tiles
    /\ tiles[s].cls \in SplitCls
    /\ Len(tiles[s].items) < MaxItems
    /\ tiles' = [tiles EXCEPT ![s].items = Append(@, t)]
    /\ call' = [op |-> "items.append", tile |-> s, arg |-> t]
    /\ result' = None
    /\ UNCHANGED <<terminals, stdout, box, buf, trace, appended, given>>

\* s.items.remove(t): the first occurrence of t leaves the list, or
\* ValueError when there is none
ItemsRemove(s, t) ==
    /\ s \in DOMAIN tiles
    /\ t \in DOMAIN tiles
    /\ tiles[s].cls \in SplitCls
    /\ LET items == tiles[s].items
           at == {k \in DOMAIN items : items[k] = t}
           first == CHOOSE k \in at : \A j \in at : k <= j
       IN  IF at = {}
           THEN /\ result' = "ValueError"
                /\ UNCHANGED tiles
           ELSE /\ result' = None
                /\ tiles' = [tiles EXCEPT ![s].items =
                                SubSeq(items, 1, first - 1)
                                \o SubSeq(items, first + 1, Len(items))]
    /\ call' = [op |-> "items.remove", tile |-> s, arg |-> t]
    /\ UNCHANGED <<terminals, stdout, box, buf, trace, appended, given>>

\* s.update_children()
UpdateChildren(s) ==
    /\ s \in DOMAIN tiles
    /\ tiles[s].cls \in SplitCls
    /\ tiles' = update_children(tiles, s)
    /\ call' = [op |-> "update_children", tile |-> s, arg |-> None]
    /\ result' = None
    /\ UNCHANGED <<terminals, stdout, box, buf, trace, appended, given>>

NextItems ==
    \/ \E c \in {NoColor, Red} : NewLeaf("Text", "text_color", c)
    \/ \E i \in 1..MaxTiles : NewParent(i, "text_color", NoColor)
    \/ \E s \in 1..MaxTiles, t \in 1..MaxTiles : ItemsAppend(s, t)
    \/ \E s \in 1..MaxTiles, t \in 1..MaxTiles : ItemsRemove(s, t)
    \/ \E s \in 1..MaxTiles : UpdateChildren(s)

SpecItems == InitColor /\ [][NextItems]_vars

----------------------------------------------------------------------------
(* SpecVChart: the row VChart._display builds for one sample, the body of *)
(* its `for dx` loop (the same in both variants of the source).           *)

\* dp = self.datapoints[index] * scale ... bar += " " * (tbox.w - len(bar)),
\* with `except IndexError: bar = " " * tbox.w`. For the integer samples
\* 0..100 and widths up to 12 the double sample * (w / 100.0) has the
\* integer part and the eighth of the exact sample * w / 100.
VChart_bar(sample, w) ==
    LET dp100 == sample * w
        int_dp == TruncDiv(dp100, 100)
        index == TruncDiv((dp100 - 100 * int_dp) * 8, 100)
        bar == Rep(Index(hbar_elements, -1), int_dp)
               \o <<Index(hbar_elements, index)>>
    IN  IF ~InRange(hbar_elements, index)
        THEN [err |-> None, caught |-> "IndexError", val |-> Rep(" ", w)]
        ELSE IF ~(Len(bar) <= w)
        THEN [err |-> "AssertionError", caught |-> None, val |-> bar]
        ELSE [err |-> None, caught |-> None,
              val |-> bar \o Rep(" ", w - Len(bar))]

\* a sample of the chart and the width of its inner box
InitVChart ==
    /\ tiles = <<>>
    /\ box = TBox(0, 0, 0, 0)
    /\ buf = <<>>
    /\ trace = <<>>
    /\ appended = <<>>
    /\ given = <<>>
    /\ result = [err |-> "pending", caught |-> None, val |-> <<>>]
    /\ terminals = <<>>
    /\ stdout = <<>>
    /\ \E sample \in 0..100, w \in 1..(2 * MaxW) :
           call = [op |-> "VChart.bar", tile |-> 0, arg |-> <<sample, w>>]

\* one iteration of the loop for that sample
DoBar(sample, w) ==
    /\ call.arg = <<sample, w>>
    /\ result.err = "pending"
    /\ result' = VChart_bar(sample, w)
    /\ UNCHANGED <<terminals, stdout, tiles, given, box, buf, trace, appended, call>>

NextVChart == \E a \in {call.arg} : DoBar(a[1], a[2])

SpecVChart == InitVChart /\ [][NextVChart]_vars

----------------------------------------------------------------------------
(* Claims *)

\* C1: after n appends a Log or VChart (capacity 50) and an HChart,
\* HBrailleChart or HBrailleFilledChart (capacity 500) holds exactly the
\* last min(n, capacity) appended items, in the order of their appending,
\* and never more than its capacity.
C1_FifoEviction ==
    \A t \in DOMAIN tiles :
        tiles[t].cls \in BufferCls =>
            LET cap == IF tiles[t].cls \in {"Log", "VChart"} THEN 50 ELSE 500
                n == Len(appended[t])
                b == BufferOf(tiles[t])
            IN  /\ Len(b) = Min(n, cap)
                /\ Len(b) <= cap
                /\ b = SubSeq(appended[t], n - Min(n, cap) + 1, n)

\* a chart of capacity 500 and a Log that have evicted at least two items
C1_Witness ==
    \E t \in DOMAIN tiles :
        /\ tiles[t].cls \in {"Log", "HChart"}
        /\ Len(appended[t]) >= MaxLenOf(tiles[t].cls) + 2
        /\ call.op = "append"

\* the _display calls of the last pass that went to a split with children
SplitCalls ==
    {i \in DOMAIN trace : /\ trace[i].fn = "_display"
                          /\ tiles[trace[i].tile].cls \in SplitCls
                          /\ tiles[trace[i].tile].items # <<>>}

\* the box the last pass handed to tile t
BoxGiven(t) ==
    trace[CHOOSE i \in DOMAIN trace :
              trace[i].fn = "_display" /\ trace[i].tile = t].tbox

\* the rows (VSplit) or columns (HSplit) of the blank fill split t drew
FillExtent(t) ==
    LET F == {i \in DOMAIN trace : trace[i].fn = "_fill_area" /\ trace[i].tile = t}
        b == trace[CHOOSE i \in F : TRUE].tbox
    IN  IF F = {} THEN 0
        ELSE Max(0, IF tiles[t].cls = "VSplit" THEN b.h ELSE b.w)

\* the extent of a box along the axis of split t
AxisExtent(t, b) == IF tiles[t].cls = "VSplit" THEN b.h ELSE b.w

\* C2: for a split with n >= 1 children drawn into a box whose inner box
\* is not empty, n times the extent of a child plus the extent of the
\* blank fill is the extent of the inner box, and the fill is exactly
\* the remainder extent mod n.
C2_FillIsRemainder ==
    \A i \in SplitCalls :
        LET t == trace[i].tile
            n == Len(tiles[t].items)
            inner == InnerBox(tiles, t, trace[i].tbox)
            extent == AxisExtent(t, inner)
            item == AxisExtent(t, BoxGiven(tiles[t].items[1]))
        IN  (inner.w > 0 /\ inner.h > 0) =>
                /\ n * item + FillExtent(t) = extent
                /\ FillExtent(t) = extent % n

\* C3: child k of a split receives the box at offset k * floor(extent / n)
\* from the origin of the inner box, floor(extent / n) long on the split
\* axis and as long as the inner box on the other; the boxes of the
\* children are pairwise disjoint and lie inside the inner box.
C3_ChildBoxes ==
    \A i \in SplitCalls :
        LET t == trace[i].tile
            n == Len(tiles[t].items)
            inner == InnerBox(tiles, t, trace[i].tbox)
            extent == AxisExtent(t, inner)
            child(k) == BoxGiven(tiles[t].items[k + 1])
        IN  /\ \A k \in 0..(n - 1) :
                   /\ child(k) =
                        IF tiles[t].cls = "VSplit"
                        THEN TBox(inner.x + k * (extent \div n), inner.y,
                                  inner.w, extent \div n)
                        ELSE TBox(inner.x, inner.y + k * (extent \div n),
                                  extent \div n, inner.h)
                   /\ CellsOf(child(k)) \subseteq CellsOf(inner)
                   /\ extent >= 0 =>
                        /\ inner.x <= child(k).x
                        /\ inner.y <= child(k).y
                        /\ child(k).x + child(k).h <= inner.x + Max(inner.h, 0)
                        /\ child(k).y + child(k).w <= inner.y + Max(inner.w, 0)
            /\ \A j, k \in 0..(n - 1) :
                   j # k => CellsOf(child(j)) \cap CellsOf(child(k)) = {}

\* a nested split at a row and column offset has drawn two children of
\* at least one row or column each and its extent leaves a remainder,
\* while its parent has drawn three
C3_Witness ==
    /\ call.op = "_display"
    /\ Len(tiles[1].items) = 3
    /\ \E i \in SplitCalls :
           LET t == trace[i].tile
               inner == InnerBox(tiles, t, trace[i].tbox)
           IN  /\ t # 1
               /\ inner.x > 0 /\ inner.y > 0 /\ inner.w > 0 /\ inner.h > 0
               /\ AxisExtent(t, inner) % 2 = 1
               /\ AxisExtent(t, inner) >= 3

\* the colour of kind `name` that the claim gives tile t: the colour the
\* caller gave it, else what its parent has, else gray
RECURSIVE Expected(_, _)
Expected(t, name) ==
    IF given[t][name] # NoColor THEN given[t][name]
    ELSE IF tiles[t].parent # 0 THEN Expected(tiles[t].parent, name)
    ELSE Gray

\* the tile reached from t by k parent pointers, 0 once past a root
RECURSIVE Ancestor(_, _)
Ancestor(t, k) ==
    IF k = 0 \/ t = 0 THEN t ELSE Ancestor(tiles[t].parent, k - 1)

\* C4: every tile resolves each colour kind to the colour it was given
\* (by its constructor or by set_color), without one to what its parent
\* resolves to, and a root without one to gray; the walk up the parents
\* ends.
C4_ColorResolution ==
    \A t \in DOMAIN tiles :
        /\ Ancestor(t, Len(tiles)) = 0
        /\ \A name \in ColorNames : ColorOf(tiles, t, name) = Expected(t, name)

\* a colour string as the formats #RRGGBB and *HHSSVV define it
ValidColorString(s) ==
    /\ Len(s) = 7
    /\ s[1] \in {"#", "*"}
    /\ \A i \in 2..7 : IsHexDigit(s[i])

\* C5: set_color with a name that is no colour kind, with a string that is
\* no valid colour, or with a value that is no string, RGB or None raises
\* an error and leaves the colours of every tile as they were.
C5_SetColorRejects ==
    [][(/\ call'.op = "set_color"
        /\ \/ call'.arg[1] \notin ColorNames
           \/ call'.arg[2] = "other"
           \/ call'.arg[2] = "str" /\ ~ValidColorString(call'.arg[3]))
       => (result' = "ValueError" /\ tiles' = tiles)]_vars

\* C6: a Log holding k lines drawn into an inner box of h rows shows, if
\* k < h, h - k blank rows and below them the k lines in the order of
\* their appending; if k >= h, the h lines appended last in that order;
\* the line appended last is in the last row.
C6_LogBottomAligned ==
    (call.op = "_display" /\ tiles[call.tile].cls = "Log" /\ result = None) =>
        LET inner == InnerBox(tiles, call.tile, call.arg)
            logs == tiles[call.tile].logs
            k == Len(logs)
            h == inner.h
            \* row j of the inner box shows `line`, blank to its right
            shows(j, line) ==
                \A c \in 0..(inner.w - 1) :
                    At(buf, inner.x + j, inner.y + c) =
                        IF c < Len(line) THEN line[c + 1] ELSE " "
        IN  (h > 0 /\ inner.w > 0) =>
                IF k < h
                THEN /\ \A j \in 0..(h - k - 1) : shows(j, <<>>)
                     /\ \A j \in 0..(k - 1) : shows(h - k + j, logs[j + 1])
                ELSE \A j \in 0..(h - 1) : shows(j, logs[k - h + j + 1])

\* C7: drawing a VChart, HChart, HBrailleChart or HBrailleFilledChart that
\* holds any number of samples raises nothing, and every cell of the inner
\* box for which the buffer holds no sample is blank.
C7_ChartsDegrade ==
    (call.op = "_display" /\ tiles[call.tile].cls \in ChartCls) =>
        LET inner == InnerBox(tiles, call.tile, call.arg)
            cls == tiles[call.tile].cls
            m == Len(tiles[call.tile].datapoints)
            \* the cell in row dx, column dy of the inner box has no sample
            missing(dx, dy) ==
                CASE cls = "VChart" -> VChartMaxLen - inner.h + dx >= m
                  [] cls = "HChart" -> inner.w - dy > m
                  [] OTHER -> 2 * (inner.w - dy) - 1 > m
        IN  /\ result = None
            /\ \A dx \in 0..(inner.h - 1), dy \in 0..(inner.w - 1) :
                   missing(dx, dy) => At(buf, inner.x + dx, inner.y + dy) = " "

\* C8: an HGauge (with or without label) or VGauge drawn into an inner
\* box of positive size shows no full glyph when its value is 0; when its
\* value is 100 every cell of the bar area (HGauge: the columns right of
\* the label and its separating blank; VGauge: every cell) shows the full
\* glyph and no partial glyph is drawn.
C8_GaugeExtremes ==
    (call.op = "_display" /\ tiles[call.tile].cls \in {"HGauge", "VGauge"}
        /\ result = None) =>
        LET t == tiles[call.tile]
            inner == InnerBox(tiles, call.tile, call.arg)
            full == IF t.cls = "HGauge" THEN hbar_elements[Len(hbar_elements)]
                    ELSE vbar_elements[Len(vbar_elements)]
            partial == IF t.cls = "HGauge"
                       THEN {hbar_elements[i] : i \in 1..(Len(hbar_elements) - 1)}
                       ELSE {vbar_elements[i] : i \in 1..(Len(vbar_elements) - 1)}
            label_area == IF t.cls = "HGauge" /\ t.label # <<>>
                          THEN Len(t.label) + 1 ELSE 0
        IN  (inner.w > label_area /\ inner.h > 0) =>
                /\ t.value = 0 => \A w \in Writes(buf) : w.g # full
                /\ t.value = 100 =>
                       /\ \A dx \in 0..(inner.h - 1), dy \in label_area..(inner.w - 1) :
                              At(buf, inner.x + dx, inner.y + dy) = full
                       /\ \A w \in Writes(buf) : w.g \notin partial

\* C9: for colours a and b and steps > 1, interpolate_colors(a, b, steps, 0)
\* is a and interpolate_colors(a, b, steps, steps - 1) is b.
C9_InterpolateEndpoints ==
    (call.op = "interpolate_colors" /\ result.err # "pending"
        /\ call.arg[3] > 1) =>
        /\ result.err = None
        /\ call.arg[4] = 0 => result.val = call.arg[1]
        /\ call.arg[4] = call.arg[3] - 1 => result.val = call.arg[2]

\* C10: RGB.parse of '#' followed by the two-digit hex of r, g and b, each
\* in 0 .. 255, returns the RGB with the channels r, g, b.
C10_ParseRoundTrip ==
    \A digits \in {HexDigits, HexDigitsUpper} :
        (call.op = "parse" /\ result.err # "pending" /\ Len(given) = 3
            /\ call.arg = <<"#">> \o Hex2(given[1], digits)
                                 \o Hex2(given[2], digits)
                                 \o Hex2(given[3], digits))
        => result = [err |-> None, val |-> RGB(given[1], given[2], given[3])]

\* a string of distinct channels, the first above 9, has been parsed
C10_Witness ==
    /\ call.op = "parse"
    /\ result.err = None
    /\ Len(given) = 3
    /\ given[1] > 9
    /\ given[1] # given[3]
    /\ result.val = RGB(given[1], given[2], given[3])

\* C11: RGB.parse raises an error for every string that is not '#' or '*'
\* followed by exactly 6 hex digits, and returns no colour for it.
C11_ParseRejects ==
    (call.op = "parse" /\ result.err # "pending"
        /\ ~ValidColorString(call.arg)) =>
        (result.err = "ValueError" /\ result.val = NoColor)

\* the box _draw_borders_and_title returned for tile t in the last pass
InnerGiven(t) ==
    trace[CHOOSE i \in DOMAIN trace :
              trace[i].fn = "_draw_borders_and_title" /\ trace[i].tile = t].tbox

\* the tiles whose borders and title the last pass drew
Bordered ==
    {trace[i].tile : i \in {j \in DOMAIN trace :
                               trace[j].fn = "_draw_borders_and_title"}}

\* C12 as stated: with a border the inner box is (row+1, col+1, w-2, h-2);
\* with a title and no border it is the box inset by 1 column with its
\* height not shrunk; with neither it is the box unchanged.
C12_InnerBox_Stated ==
    \A t \in Bordered :
        LET b == BoxGiven(t)
            r == InnerGiven(t)
        IN  IF tiles[t].border
            THEN r = TBox(b.x + 1, b.y + 1, b.w - 2, b.h - 2)
            ELSE IF tiles[t].title # <<>>
            THEN r.y = b.y + 1 /\ r.h = b.h
            ELSE r = b

\* C12 (amended): with a border the inner box is (row+1, col+1, w-2, h-2);
\* with a title and no border it is the box without its first row: one row
\* lower, one row shorter, column and width unchanged; with neither it is
\* the box unchanged.
C12_InnerBox ==
    \A t \in Bordered :
        LET b == BoxGiven(t)
            r == InnerGiven(t)
        IN  r = IF tiles[t].border
                THEN TBox(b.x + 1, b.y + 1, b.w - 2, b.h - 2)
                ELSE IF tiles[t].title # <<>>
                THEN TBox(b.x + 1, b.y, b.w, b.h - 1)
                ELSE b

\* a split with a title and no border has been drawn into a box of at
\* least two rows, and its first child starts in the second row
C12_Witness ==
    /\ 1 \in Bordered
    /\ ~tiles[1].border
    /\ tiles[1].title # <<>>
    /\ BoxGiven(1).h >= 2
    /\ BoxGiven(1).w >= 1
    /\ BoxGiven(tiles[1].items[1]).x = BoxGiven(1).x + 1

\* C13: one display() call writes no cell in the last row of the terminal:
\* every cell written lies inside the root box (0, 0, width, height - 1).
C13_LastRowUntouched ==
    (call.op = "display" /\ stdout # <<>>) =>
        LET T == terminals[stdout[1].t]
        IN  /\ box = TBox(0, 0, T.width, T.height - 1)
            /\ Written(stdout[1].tokens) \subseteq CellsOf(box)
            /\ \A c \in Written(stdout[1].tokens) : c[1] # T.height - 1

\* C14: every display() call on a tile renders to the terminal chosen by
\* the first call (the given one, or a default created then); a terminal
\* given to a later call is ignored and no terminal is created later.
C14_TerminalCached ==
    [][call'.op = "display" =>
        LET t == call'.tile
            T == terminals'[tiles'[t]._terminal]
        IN  /\ tiles[t]._terminal # 0 =>
                /\ tiles'[t]._terminal = tiles[t]._terminal
                /\ terminals' = terminals
            /\ tiles[t]._terminal = 0 =>
                IF call'.arg # 0
                THEN tiles'[t]._terminal = call'.arg /\ terminals' = terminals
                ELSE /\ tiles'[t]._terminal = Len(terminals) + 1
                     /\ Len(terminals') = Len(terminals) + 1
            /\ box' = TBox(0, 0, T.width, T.height - 1)
            /\ trace'[1] = [fn |-> "_display", tile |-> t, tbox |-> box']
            /\ \A i \in DOMAIN stdout' : stdout'[i].t = tiles'[t]._terminal]_vars

\* a display() given the second terminal has rendered to the first, cached
\* by an earlier call, whose size is different
C14_Witness ==
    /\ call.op = "display"
    /\ call.arg = 2
    /\ tiles[1]._terminal = 1
    /\ terminals[1] # terminals[2]
    /\ stdout # <<>>
    /\ stdout[1].t = 1
    /\ box.w = terminals[1].width

\* the tiles of the tree below tile t, t included
RECURSIVE Subtree(_)
Subtree(t) ==
    {t} \cup UNION {Subtree(tiles[t].items[k]) : k \in DOMAIN tiles[t].items}

C16_ColorRange ==
    (call.op = "_display" /\ tiles[call.tile].cls = "ColorRangeVGauge"
        /\ tiles[call.tile].colormap # <<>>) =>
        LET cm == tiles[call.tile].colormap
            above == {i \in DOMAIN cm : cm[i][1] > tiles[call.tile].value}
            expected == IF above = {} THEN cm[Len(cm)][2]
                        ELSE cm[CHOOSE i \in above : \A j \in above : i <= j][2]
        IN  /\ stdout[1].tokens[2] = ColorTok(<<expected>>)
            /\ \A i \in 2..Len(stdout) : \A j \in DOMAIN stdout[i].tokens :
                   stdout[i].tokens[j].tok # "color"

\* a gauge with three thresholds, its value equal to the second, has drawn
\* at least two rows in the colour of the third
C16_Witness ==
    /\ call.op = "_display"
    /\ tiles[1].cls = "ColorRangeVGauge"
    /\ Len(tiles[1].colormap) = 3
    /\ tiles[1].value = 66
    /\ stdout[1].tokens[2] = ColorTok(<<1>>)
    /\ Len(stdout) >= 3
    /\ box.w >= 1

\* C17: in HBrailleChart, a cell for which two samples are available shows
\* code point 0x2800 plus the bitwise OR of the left mask of the first
\* sample and the right mask of the second; a sample contributes its mask
\* (the dot floor(fractional_row * 4) of its side) only when its row is the
\* rendered row, and the cell is blank when neither row is.
C17_BraillePacking ==
    (call.op = "_display" /\ tiles[call.tile].cls = "HBrailleChart"
        /\ result = None) =>
        LET inner == InnerGiven(call.tile)
            dps == tiles[call.tile].datapoints
            m == Len(dps)
            RECURSIVE BitOr(_, _)
            BitOr(a, b) ==
                IF a = 0 /\ b = 0 THEN 0
                ELSE (IF a % 2 = 1 \/ b % 2 = 1 THEN 1 ELSE 0)
                        + 2 * BitOr(a \div 2, b \div 2)
            \* q = (1 - dp / 100) * h, its whole part and the quarter of
            \* its fractional part
            sample_row(dp) == ((100 - dp) * inner.h) \div 100
            dot(dp) == ((((100 - dp) * inner.h) % 100) * 4) \div 100
            left(dp, dx) ==
                IF sample_row(dp) = dx THEN braille_left[dot(dp) + 1] ELSE 0
            right(dp, dx) ==
                IF sample_row(dp) = dx THEN braille_right[dot(dp) + 1] ELSE 0
            expected(dp1, dp2, dx) ==
                IF sample_row(dp1) # dx /\ sample_row(dp2) # dx THEN " "
                ELSE ToString(10240 + BitOr(left(dp1, dx), right(dp2, dx)))
        IN  \A dx \in 0..(inner.h - 1), dy \in 0..(inner.w - 1) :
                LET first == m - 2 * (inner.w - dy) + 1
                IN  first >= 1 =>
                        At(buf, inner.x + dx, inner.y + dy)
                            = expected(dps[first], dps[first + 1], dx)

\* an HBrailleChart has drawn a cell that holds the dots of both samples
\* and a cell that holds one dot only
C17_Witness ==
    /\ call.op = "_display"
    /\ tiles[call.tile].cls = "HBrailleChart"
    /\ result = None
    /\ \E w \in Writes(buf) :
           w.g \in {ToString(10240 + l + r) : l \in {1, 2, 4, 64},
                                             r \in {8, 16, 32, 128}}
    /\ \E w \in Writes(buf) :
           w.g \in {ToString(10240 + r) : r \in {8, 16, 32, 128}}

\* C18: an HChart holding m samples, drawn into an inner box of width w
\* and height h, shows in column c the sample at position m-w+c of its
\* buffer and a blank column when m-w+c < 0; in the column of a sample the
\* rows above the threshold row are blank, the rows below it full blocks,
\* and the threshold row holds one glyph of the 8 vertical bar glyphs.
C18_HChartColumns ==
    (call.op = "_display" /\ tiles[call.tile].cls = "HChart"
        /\ result = None) =>
        LET inner == InnerGiven(call.tile)
            dps == tiles[call.tile].datapoints
            m == Len(dps)
            threshold(dp) == ((100 - dp) * inner.h) \div 100
            shown(dx, dy) == At(buf, inner.x + dx, inner.y + dy)
        IN  \A dx \in 0..(inner.h - 1), dy \in 0..(inner.w - 1) :
                LET pos == m - inner.w + dy
                IN  IF pos < 0 THEN shown(dx, dy) = " "
                    ELSE IF dx < threshold(dps[pos + 1]) THEN shown(dx, dy) = " "
                    ELSE IF dx > threshold(dps[pos + 1])
                    THEN shown(dx, dy) = vbar_elements[8]
                    ELSE \E i \in 1..8 : shown(dx, dy) = vbar_elements[i]

\* an HChart holding more samples than it has columns has drawn a column
\* with a blank row on top, a partial glyph below it and a full block at
\* the bottom
C18_Witness ==
    /\ call.op = "_display"
    /\ tiles[call.tile].cls = "HChart"
    /\ result = None
    /\ Len(tiles[call.tile].datapoints) > InnerGiven(call.tile).w
    /\ LET inner == InnerGiven(call.tile)
       IN  \E dy \in 0..(inner.w - 1) :
               /\ inner.h >= 3
               /\ At(buf, inner.x, inner.y + dy) = " "
               /\ \E i \in 1..7 :
                      At(buf, inner.x + 1, inner.y + dy) = vbar_elements[i]
               /\ At(buf, inner.x + inner.h - 1, inner.y + dy) = vbar_elements[8]

\* C19: drawing a VChart that holds m samples into an inner box of height
\* h succeeds and shows the min(m, h) most recent samples, one per row: as
\* many rows as that hold a bar, and a row is blank only when there is no
\* sample for it.
C19_VChartRows ==
    (call.op = "_display" /\ tiles[call.tile].cls = "VChart") =>
        LET inner == InnerBox(tiles, call.tile, call.arg)
            m == Len(tiles[call.tile].datapoints)
            bar(dx) == \E dy \in 0..(inner.w - 1) :
                           At(buf, inner.x + dx, inner.y + dy) \notin {" ", ""}
        IN  /\ result = None
            /\ inner.w > 0 =>
                   Cardinality({dx \in 0..(inner.h - 1) : bar(dx)})
                       = Min(m, Max(inner.h, 0))

\* C20: rendering a tile into a box of width <= 0 or height <= 0 writes
\* nothing and raises no error.
C20_DegenerateBox ==
    (call.op = "_display" /\ (call.arg.w <= 0 \/ call.arg.h <= 0)) =>
        /\ result = None
        /\ Written(buf) = {}

\* C21: every call of interpolate_colors made while an HGauge, a VGauge
\* or a Log is rendered has steps > 0 and 0 <= pos < steps, and the
\* rendering does not fail on the assertion steps > 0.
C21_InterpolateArgs ==
    call.op = "_display" =>
        /\ result # "AssertionError"
        /\ \A i \in DOMAIN trace :
               trace[i].fn = "interpolate_colors" =>
                   /\ trace[i].steps > 0
                   /\ 0 <= trace[i].pos
                   /\ trace[i].pos < trace[i].steps

\* C22: when a producer appends to a Log or an HChart while a pass of
\* _display is in progress, the finished frame is the frame of one and the
\* same buffer contents: the contents before the append or after it.
C22_NoTearing ==
    \A t \in DOMAIN tiles :
        (/\ call.op = "_display"
         /\ call.arg.dx = DisplayRows(t)
         /\ Len(given) > 1)
        => \E k \in DOMAIN given : buf = Tile_display(given[k], t, box).buf

\* C23: whatever tiles were constructed and however the list s.items of a
\* Split s was added to or removed from, every tile in s.items has s as its
\* parent, no tile outside s.items has s as its parent, and no tile is
\* reached from itself by following parent.
C23_Ownership ==
    /\ \A s \in DOMAIN tiles :
           tiles[s].cls \in SplitCls =>
               \A t \in DOMAIN tiles :
                   (\E k \in DOMAIN tiles[s].items : tiles[s].items[k] = t)
                   <=> tiles[t].parent = s
    /\ \A t \in DOMAIN tiles : \A k \in 1..Len(tiles) : Ancestor(t, k) # t

\* C24: every row an HGauge (with or without label, any value) emits into
\* an inner box of width w >= 1 covers exactly the w columns of that box:
\* none is left out and none lies past its right edge.
C24_RowWidth ==
    (call.op = "_display" /\ tiles[call.tile].cls = "HGauge" /\ result = None) =>
        LET inner == InnerBox(tiles, call.tile, call.arg)
            drawn == Len(_draw_borders_and_title(tiles, call.tile, call.arg).buf)
            exact(W) ==
                \A dx \in 0..(inner.h - 1) :
                    {w.c : w \in {v \in W : v.i > drawn /\ v.r = inner.x + dx}}
                        = inner.y..(inner.y + inner.w - 1)
        IN  inner.w >= 1 => exact(Writes(buf))

\* C25: for every sample in [0, 100] and every inner width w >= 1 the bar
\* VChart builds is at most w glyphs long and its partial glyph is an entry
\* of hbar_elements: neither the assertion len(bar) <= tbox.w fails nor is
\* the sample's row blanked by the IndexError handler.
C25_BarFits ==
    (call.op = "VChart.bar" /\ result.err # "pending") =>
        /\ result.err = None
        /\ result.caught = None
        /\ Len(result.val) <= call.arg[2]

====
